---------------------------- MODULE Spec2Model ----------------------------
(***************************************************************************)
(* A model of src/deploy.py: the command-line client that deploys, lists   *)
(* and deletes SageMaker JumpStart endpoints.                              *)
(*                                                                         *)
(* One behaviour is one invocation of the CLI.  Init is the state after    *)
(* parse_args: the parsed arguments (args) and the state of the remote     *)
(* service the invocation will talk to.  The actions are the steps of      *)
(* main, list_deployed_models and delete_deployed_model; every remote call *)
(* is one step whose outcome (success or an exception) is chosen by the    *)
(* service.                                                                *)
(***************************************************************************)
EXTENDS Naturals, Integers, Sequences, FiniteSets

\* Longest ProductionVariants list of the endpoint configuration.
MaxVariants == 2
\* Largest number of pages a list operation is served in.
MaxPages == 3

\* Names of the remote resources of the modelled account.
ModelIds == {"mA", "mB"}
EndpointIds == {"ep1"}
ConfigIds == {"cfg1"}

\* What one page of ListModels / ListEndpoints may hold.
ModelPageChoices == {<<>>, <<"mA">>, <<"mB", "mA">>}
EndpointPageChoices == {<<>>, <<"ep1">>}

VARIABLES
    args,                  \* the namespace parse_args returned
    pc,                    \* position of the invocation
    remote,                \* the service: the resources that exist, by kind
    remote0,               \* the service at the start of the invocation
    endpointConfigOf,      \* the service: endpoint name -> EndpointConfigName
    productionVariants,    \* the service: config name -> ProductionVariants
    modelPages,            \* the service: the pages ListModels serves
    endpointPages,         \* the service: the pages ListEndpoints serves
    sagemaker_client,      \* boto3.client("sagemaker"), "None" before it
    calls,                 \* describe/delete calls issued, with their outcome
    endpoint_config_name,  \* delete_deployed_model's local
    model_names,           \* delete_deployed_model's local
    idx,                   \* position of the for loop over model_names
    result,                \* what delete_deployed_model returned
    listCalls,             \* list calls issued, with token and outcome
    models_response,       \* list_deployed_models' locals
    all_models,
    endpoints_response,
    all_endpoints,
    listReturned,          \* list_deployed_models returned to main
    models,                \* main's locals (line 287)
    endpoints,
    predictor,             \* what deploy_model returned
    stdout,                \* the lines printed
    raised,                \* an exception left main uncaught
    exit_code              \* the value main returned to sys.exit, -1 before

svcVars == <<endpointConfigOf, productionVariants, modelPages, endpointPages>>
delVars == <<calls, endpoint_config_name, model_names, idx, result>>
listVars == <<listCalls, models_response, all_models, endpoints_response,
              all_endpoints, listReturned, models, endpoints>>
vars == <<args, pc, remote, remote0, svcVars, sagemaker_client, delVars,
          listVars, predictor, stdout, raised, exit_code>>

----------------------------------------------------------------------------
(* Helpers *)

\* Sequences over S of length lo..hi.
SeqsOf(S, lo, hi) == UNION {[1..n -> S] : n \in lo..hi}

Line(text, data) == [text |-> text, data |-> data]

NoResponse == [Items |-> <<>>, HasNextToken |-> FALSE, NextToken |-> 0]

\* The namespace of each sub-command, with the defaults parse_args gives.
DefaultArgs ==
    [command |-> "none", model_id |-> "mA", accept_eula |-> TRUE,
     wait |-> FALSE, endpoints_only |-> FALSE, models_only |-> FALSE,
     json |-> FALSE, endpoint_name |-> "ep1", delete_model |-> TRUE]

ParsedArgs ==
    {DefaultArgs}
    \cup {[DefaultArgs EXCEPT !.command = "deploy", !.accept_eula = e,
                              !.wait = w] : e \in BOOLEAN, w \in BOOLEAN}
    \cup {[DefaultArgs EXCEPT !.command = "list", !.endpoints_only = e,
                              !.models_only = m, !.json = j] :
              e \in BOOLEAN, m \in BOOLEAN, j \in BOOLEAN}
    \cup {[DefaultArgs EXCEPT !.command = "delete", !.endpoint_name = n,
                              !.delete_model = d] :
              n \in EndpointIds, d \in BOOLEAN}

Variants == [VariantName : {"v"}, ModelName : ModelIds]

Init ==
    /\ args \in ParsedArgs
    /\ pc = "main"
    /\ remote \in
         IF args.command = "delete"
         THEN [endpoints : SUBSET EndpointIds, configs : SUBSET ConfigIds,
               models : SUBSET ModelIds]
         ELSE {[endpoints |-> {}, configs |-> {}, models |-> {}]}
    /\ remote0 = remote
    /\ endpointConfigOf = [e \in EndpointIds |-> "cfg1"]
    /\ productionVariants \in
         IF args.command = "delete"
         THEN [ConfigIds -> SeqsOf(Variants, 1, MaxVariants)]
         ELSE {[c \in ConfigIds |-> <<[VariantName |-> "v", ModelName |-> "mA"]>>]}
    /\ modelPages \in
         IF args.command = "list"
         THEN SeqsOf(ModelPageChoices, 1, MaxPages)
         ELSE {<< <<>> >>}
    /\ endpointPages \in
         IF args.command = "list"
         THEN SeqsOf(EndpointPageChoices, 1, MaxPages)
         ELSE {<< <<>> >>}
    /\ sagemaker_client = "None"
    /\ calls = <<>>
    /\ endpoint_config_name = "None"
    /\ model_names = <<>>
    /\ idx = 1
    /\ result = "None"
    /\ listCalls = <<>>
    /\ models_response = NoResponse
    /\ all_models = NoResponse
    /\ endpoints_response = NoResponse
    /\ all_endpoints = NoResponse
    /\ listReturned = FALSE
    /\ models = NoResponse
    /\ endpoints = NoResponse
    /\ predictor = "None"
    /\ stdout = <<>>
    /\ raised = FALSE
    /\ exit_code = -1

\* An exception nobody catches leaves main: the process ends with a
\* traceback and main returns nothing.
Uncaught ==
    /\ raised' = TRUE
    /\ pc' = "exit"
    /\ UNCHANGED exit_code

----------------------------------------------------------------------------
(* main: no command, and the dispatch to the sub-commands *)

MainNoCommand ==
    /\ pc = "main"
    /\ args.command = "none"
    /\ stdout' = stdout \o <<Line("Error: No command specified", <<>>),
                            Line("Use --help for usage information", <<>>)>>
    /\ exit_code' = 1
    /\ pc' = "exit"
    /\ UNCHANGED <<args, remote, remote0, svcVars, sagemaker_client, delVars,
                   listVars, predictor, raised>>

MainCall ==
    /\ pc = "main"
    /\ args.command \in {"list", "delete"}
    /\ pc' = IF args.command = "list" THEN "list_client" ELSE "del_client"
    /\ UNCHANGED <<args, remote, remote0, svcVars, sagemaker_client, delVars,
                   listVars, predictor, stdout, raised, exit_code>>

----------------------------------------------------------------------------
(* The service's side of a describe or delete call *)

Exists(kind, name) == name \in remote[kind]

\* A call on a named resource succeeds when the service accepts it (ok) and
\* the resource exists; otherwise the client raises.
Succeeds(kind, name, ok) == ok /\ Exists(kind, name)

Call(op, name, succ) == [op |-> op, arg |-> name, ok |-> succ]

Removed(kind, name) == [remote EXCEPT ![kind] = @ \ {name}]

----------------------------------------------------------------------------
(* delete_deployed_model *)

\* boto3.client("sagemaker") stands before the try: an exception of it
\* (no region, no credentials file) leaves delete_deployed_model.
DeleteCreateClient ==
    /\ pc = "del_client"
    /\ \E ok \in BOOLEAN :
         IF ok
         THEN /\ sagemaker_client' = "client"
              /\ pc' = "del_describe_ep"
              /\ UNCHANGED <<raised, exit_code>>
         ELSE /\ Uncaught
              /\ UNCHANGED sagemaker_client
    /\ UNCHANGED <<args, remote, remote0, svcVars, delVars, listVars,
                   predictor, stdout>>

Except_ReturnsTrue ==
    /\ result' = "True"
    /\ pc' = "del_returned"

\* except Exception: log the error, return False.
Except ==
    /\ result' = "False"
    /\ pc' = "del_returned"

DescribeEndpoint ==
    /\ pc = "del_describe_ep"
    /\ \E ok \in BOOLEAN :
         LET succ == Succeeds("endpoints", args.endpoint_name, ok) IN
         /\ calls' = Append(calls, Call("DescribeEndpoint", args.endpoint_name, succ))
         /\ IF succ
            THEN /\ endpoint_config_name' = endpointConfigOf[args.endpoint_name]
                 /\ pc' = "del_describe_cfg"
                 /\ UNCHANGED result
            ELSE /\ Except
                 /\ UNCHANGED endpoint_config_name
    /\ UNCHANGED <<args, remote, remote0, svcVars, sagemaker_client,
                   model_names, idx, listVars, predictor, stdout, raised,
                   exit_code>>

ModelNames_Reversed(variants) ==
    [i \in 1..Len(variants) |-> variants[Len(variants) + 1 - i].ModelName]

\* [variant["ModelName"] for variant in endpoint_config["ProductionVariants"]]
ModelNames(variants) ==
    [i \in 1..Len(variants) |-> variants[i].ModelName]

DescribeEndpointConfig_Ignored ==
    /\ pc = "del_describe_cfg"
    /\ \E ok \in BOOLEAN :
         LET succ == Succeeds("configs", endpoint_config_name, ok) IN
         /\ calls' = Append(calls, Call("DescribeEndpointConfig", endpoint_config_name, succ))
         /\ model_names' = IF succ
                           THEN ModelNames(productionVariants[endpoint_config_name])
                           ELSE <<>>
         /\ pc' = "del_endpoint"
         /\ UNCHANGED result
    /\ UNCHANGED <<args, remote, remote0, svcVars, sagemaker_client,
                   endpoint_config_name, idx, listVars, predictor, stdout,
                   raised, exit_code>>

DescribeEndpointConfig ==
    /\ pc = "del_describe_cfg"
    /\ \E ok \in BOOLEAN :
         LET succ == Succeeds("configs", endpoint_config_name, ok) IN
         /\ calls' = Append(calls, Call("DescribeEndpointConfig", endpoint_config_name, succ))
         /\ IF succ
            THEN /\ model_names' = ModelNames(productionVariants[endpoint_config_name])
                 /\ pc' = "del_endpoint"
                 /\ UNCHANGED result
            ELSE /\ Except
                 /\ UNCHANGED model_names
    /\ UNCHANGED <<args, remote, remote0, svcVars, sagemaker_client,
                   endpoint_config_name, idx, listVars, predictor, stdout,
                   raised, exit_code>>

DeleteEndpoint ==
    /\ pc = "del_endpoint"
    /\ \E ok \in BOOLEAN :
         LET succ == Succeeds("endpoints", args.endpoint_name, ok) IN
         /\ calls' = Append(calls, Call("DeleteEndpoint", args.endpoint_name, succ))
         /\ IF succ
            THEN /\ remote' = Removed("endpoints", args.endpoint_name)
                 /\ pc' = "del_config"
                 /\ UNCHANGED result
            ELSE /\ Except
                 /\ UNCHANGED remote
    /\ UNCHANGED <<args, remote0, svcVars, sagemaker_client,
                   endpoint_config_name, model_names, idx, listVars,
                   predictor, stdout, raised, exit_code>>

DeleteEndpointConfig_BestEffort ==
    /\ pc = "del_config"
    /\ \E ok \in BOOLEAN :
         LET succ == Succeeds("configs", endpoint_config_name, ok) IN
         /\ calls' = Append(calls, Call("DeleteEndpointConfig", endpoint_config_name, succ))
         /\ remote' = IF succ THEN Removed("configs", endpoint_config_name)
                      ELSE remote
         /\ pc' = "del_models"
         /\ UNCHANGED result
    /\ UNCHANGED <<args, remote0, svcVars, sagemaker_client,
                   endpoint_config_name, model_names, idx, listVars,
                   predictor, stdout, raised, exit_code>>

DeleteEndpointConfig ==
    /\ pc = "del_config"
    /\ \E ok \in BOOLEAN :
         LET succ == Succeeds("configs", endpoint_config_name, ok) IN
         /\ calls' = Append(calls, Call("DeleteEndpointConfig", endpoint_config_name, succ))
         /\ IF succ
            THEN /\ remote' = Removed("configs", endpoint_config_name)
                 /\ pc' = "del_models"
                 /\ UNCHANGED result
            ELSE /\ Except
                 /\ UNCHANGED remote
    /\ UNCHANGED <<args, remote0, svcVars, sagemaker_client,
                   endpoint_config_name, model_names, idx, listVars,
                   predictor, stdout, raised, exit_code>>

DeleteModelRequested_Always == TRUE

\* if delete_model:
DeleteModelRequested == args.delete_model

\* One iteration of: for model_name in model_names: delete_model(...)
DeleteModel ==
    /\ pc = "del_models"
    /\ DeleteModelRequested
    /\ idx <= Len(model_names)
    /\ \E ok \in BOOLEAN :
         LET model_name == model_names[idx]
             succ == Succeeds("models", model_name, ok) IN
         /\ calls' = Append(calls, Call("DeleteModel", model_name, succ))
         /\ IF succ
            THEN /\ remote' = Removed("models", model_name)
                 /\ idx' = idx + 1
                 /\ UNCHANGED <<pc, result>>
            ELSE /\ Except
                 /\ UNCHANGED <<remote, idx>>
    /\ UNCHANGED <<args, remote0, svcVars, sagemaker_client,
                   endpoint_config_name, model_names, listVars, predictor,
                   stdout, raised, exit_code>>

\* return True
DeleteReturnTrue ==
    /\ pc = "del_models"
    /\ ~DeleteModelRequested \/ idx > Len(model_names)
    /\ result' = "True"
    /\ pc' = "del_returned"
    /\ UNCHANGED <<args, remote, remote0, svcVars, sagemaker_client, calls,
                   endpoint_config_name, model_names, idx, listVars,
                   predictor, stdout, raised, exit_code>>

DeleteExitCode_AlwaysZero(r) == 0

\* main's exit code for the value delete_deployed_model returned.
DeleteExitCode(r) == IF r = "True" THEN 0 ELSE 1

\* main, the delete branch after the call returned.
MainDelete ==
    /\ pc = "del_returned"
    /\ stdout' = stdout \o
         IF result = "True"
         THEN <<Line("Successfully deleted endpoint", <<args.endpoint_name>>),
                IF args.delete_model
                THEN Line("Associated models were also deleted", <<>>)
                ELSE Line("Associated models were kept", <<>>)>>
         ELSE <<Line("Failed to delete endpoint", <<args.endpoint_name>>)>>
    /\ exit_code' = DeleteExitCode(result)
    /\ pc' = "exit"
    /\ UNCHANGED <<args, remote, remote0, svcVars, sagemaker_client, delVars,
                   listVars, predictor, raised>>

----------------------------------------------------------------------------
(* The service's side of a list call *)

\* The response to a list call for the page at cursor t (the first call,
\* without NextToken, asks for page 1): the page's items, and a NextToken
\* unless the page is the last one.
ListPage(pages, t) ==
    [Items |-> pages[t],
     HasNextToken |-> t < Len(pages),
     NextToken |-> IF t < Len(pages) THEN t + 1 ELSE 0]

ListCall(op, t, succ) == [op |-> op, token |-> t, ok |-> succ]

----------------------------------------------------------------------------
(* list_deployed_models *)

ListCreateClient ==
    /\ pc = "list_client"
    /\ \E ok \in BOOLEAN :
         IF ok
         THEN /\ sagemaker_client' = "client"
              /\ pc' = "list_models"
              /\ UNCHANGED <<raised, exit_code>>
         ELSE /\ Uncaught
              /\ UNCHANGED sagemaker_client
    /\ UNCHANGED <<args, remote, remote0, svcVars, delVars, listVars,
                   predictor, stdout>>

Extend_Replace(acc, page) == page

\* list.extend: the page's items appended to the accumulated ones.
Extend(acc, page) == acc \o page

MorePages_NonEmpty(response) ==
    response.HasNextToken /\ response.Items # <<>>

\* "NextToken" in response
MorePages(response) == response.HasNextToken

\* models_response = list_models(); all_models = models_response.copy()
ListModelsFirst ==
    /\ pc = "list_models"
    /\ \E ok \in BOOLEAN :
         /\ listCalls' = Append(listCalls, ListCall("ListModels", 0, ok))
         /\ IF ok
            THEN /\ models_response' = ListPage(modelPages, 1)
                 /\ all_models' = models_response'
                 /\ pc' = "list_models_loop"
                 /\ UNCHANGED <<raised, exit_code>>
            ELSE /\ Uncaught
                 /\ UNCHANGED <<models_response, all_models>>
    /\ UNCHANGED <<args, remote, remote0, svcVars, sagemaker_client, delVars,
                   endpoints_response, all_endpoints, listReturned, models,
                   endpoints, predictor, stdout>>

\* One iteration of: while "NextToken" in models_response
ListModelsNext ==
    /\ pc = "list_models_loop"
    /\ MorePages(models_response)
    /\ \E ok \in BOOLEAN :
         /\ listCalls' = Append(listCalls,
                ListCall("ListModels", models_response.NextToken, ok))
         /\ IF ok
            THEN /\ models_response' = ListPage(modelPages, models_response.NextToken)
                 /\ all_models' = [all_models EXCEPT
                        !.Items = Extend(@, models_response'.Items)]
                 /\ UNCHANGED <<pc, raised, exit_code>>
            ELSE /\ Uncaught
                 /\ UNCHANGED <<models_response, all_models>>
    /\ UNCHANGED <<args, remote, remote0, svcVars, sagemaker_client, delVars,
                   endpoints_response, all_endpoints, listReturned, models,
                   endpoints, predictor, stdout>>

ListEndpointsFailed_Swallowed ==
    /\ models' = all_models
    /\ endpoints' = all_endpoints
    /\ listReturned' = TRUE
    /\ pc' = "main_list"
    /\ UNCHANGED <<raised, exit_code>>

\* An exception of list_endpoints: list_deployed_models has no handler, nor
\* has main.
ListEndpointsFailed ==
    /\ Uncaught
    /\ UNCHANGED <<models, endpoints, listReturned>>

\* endpoints_response = list_endpoints(); all_endpoints = ....copy()
ListEndpointsFirst ==
    /\ pc = "list_models_loop"
    /\ ~MorePages(models_response)
    /\ \E ok \in BOOLEAN :
         /\ listCalls' = Append(listCalls, ListCall("ListEndpoints", 0, ok))
         /\ IF ok
            THEN /\ endpoints_response' = ListPage(endpointPages, 1)
                 /\ all_endpoints' = endpoints_response'
                 /\ pc' = "list_endpoints_loop"
                 /\ UNCHANGED <<raised, exit_code, models, endpoints, listReturned>>
            ELSE /\ ListEndpointsFailed
                 /\ UNCHANGED <<endpoints_response, all_endpoints>>
    /\ UNCHANGED <<args, remote, remote0, svcVars, sagemaker_client, delVars,
                   models_response, all_models, predictor, stdout>>

\* One iteration of: while "NextToken" in endpoints_response
ListEndpointsNext ==
    /\ pc = "list_endpoints_loop"
    /\ MorePages(endpoints_response)
    /\ \E ok \in BOOLEAN :
         /\ listCalls' = Append(listCalls,
                ListCall("ListEndpoints", endpoints_response.NextToken, ok))
         /\ IF ok
            THEN /\ endpoints_response' =
                        ListPage(endpointPages, endpoints_response.NextToken)
                 /\ all_endpoints' = [all_endpoints EXCEPT
                        !.Items = Extend(@, endpoints_response'.Items)]
                 /\ UNCHANGED <<pc, raised, exit_code, models, endpoints, listReturned>>
            ELSE /\ ListEndpointsFailed
                 /\ UNCHANGED <<endpoints_response, all_endpoints>>
    /\ UNCHANGED <<args, remote, remote0, svcVars, sagemaker_client, delVars,
                   models_response, all_models, predictor, stdout>>

\* return all_models, all_endpoints
ListReturn ==
    /\ pc = "list_endpoints_loop"
    /\ ~MorePages(endpoints_response)
    /\ models' = all_models
    /\ endpoints' = all_endpoints
    /\ listReturned' = TRUE
    /\ pc' = "main_list"
    /\ UNCHANGED <<args, remote, remote0, svcVars, sagemaker_client, delVars,
                   listCalls, models_response, all_models, endpoints_response,
                   all_endpoints, predictor, stdout, raised, exit_code>>

\* print_endpoint_list / print_model_list: a notice when the list is empty,
\* else a title, a header and one row per item.
PrintList(kind, aggregate) ==
    IF aggregate.Items = <<>>
    THEN <<Line("none found", <<kind>>)>>
    ELSE <<Line("title", <<kind>>), Line("header", <<kind>>)>>
         \o [i \in 1..Len(aggregate.Items) |-> Line("row", <<aggregate.Items[i]>>)]

\* print(json.dumps(aggregate, default=str))
PrintJson(kind, aggregate) == <<Line("json", <<kind>> \o aggregate.Items)>>

\* main, the list branch after the call returned.
MainList ==
    /\ pc = "main_list"
    /\ stdout' = stdout
         \o (IF args.models_only THEN <<>>
             ELSE IF args.json THEN PrintJson("Endpoints", endpoints)
                  ELSE PrintList("Endpoints", endpoints))
         \o (IF args.endpoints_only THEN <<>>
             ELSE IF args.json THEN PrintJson("Models", models)
                  ELSE PrintList("Models", models))
    /\ exit_code' = 0
    /\ pc' = "exit"
    /\ UNCHANGED <<args, remote, remote0, svcVars, sagemaker_client, delVars,
                   listVars, predictor, raised>>

----------------------------------------------------------------------------
(* deploy_model and main's deploy branch *)

\* JumpStartModel(...).deploy(...) either raises or returns a predictor for
\* the endpoint it created; with wait the endpoint is in service on return,
\* without it the endpoint is still being created.
MainDeploy ==
    /\ pc = "main"
    /\ args.command = "deploy"
    /\ \E ok \in BOOLEAN :
         IF ok
         THEN /\ predictor' = "ep1"
              /\ remote' = [endpoints |-> remote.endpoints \cup {"ep1"},
                            configs |-> remote.configs \cup {"cfg1"},
                            models |-> remote.models \cup {args.model_id}]
              /\ stdout' = stdout \o
                   <<Line("Successfully initiated deployment of model", <<args.model_id>>),
                     Line("Endpoint name", <<predictor'>>),
                     IF ~args.wait
                     THEN Line("Deployment is continuing in the background", <<predictor'>>)
                     ELSE Line("Model deployment completed successfully.", <<>>)>>
              /\ exit_code' = 0
              /\ pc' = "exit"
              /\ UNCHANGED raised
         ELSE /\ Uncaught
              /\ UNCHANGED <<predictor, remote, stdout>>
    /\ UNCHANGED <<args, remote0, svcVars, sagemaker_client, delVars, listVars>>

Next ==
    \/ MainNoCommand
    \/ MainDeploy
    \/ ListCreateClient
    \/ ListModelsFirst
    \/ ListModelsNext
    \/ ListEndpointsFirst
    \/ ListEndpointsNext
    \/ ListReturn
    \/ MainList
    \/ MainCall
    \/ DeleteCreateClient
    \/ DescribeEndpoint
    \/ DescribeEndpointConfig
    \/ DeleteEndpoint
    \/ DeleteEndpointConfig
    \/ DeleteModel
    \/ DeleteReturnTrue
    \/ MainDelete

Spec == Init /\ [][Next]_vars

----------------------------------------------------------------------------
(* Vocabulary of the properties *)

RECURSIVE Flatten(_)
\* The items of a sequence of pages, in page order.
Flatten(pages) ==
    IF pages = <<>> THEN <<>> ELSE Head(pages) \o Flatten(Tail(pages))

DeleteOps == {"DeleteEndpoint", "DeleteEndpointConfig", "DeleteModel"}
DescribeOps == {"DescribeEndpoint", "DescribeEndpointConfig"}

IsDeleteCall(c) == c.op \in DeleteOps
DeleteCalls == SelectSeq(calls, IsDeleteCall)

Issued(op) == {i \in DOMAIN calls : calls[i].op = op}
Failed(op) == {i \in Issued(op) : ~calls[i].ok}
Done(op) == {i \in Issued(op) : calls[i].ok}

ListIssued(op) == {i \in DOMAIN listCalls : listCalls[i].op = op}
ListFailed(op) == {i \in ListIssued(op) : ~listCalls[i].ok}

\* The delete calls a complete teardown of the endpoint issues, read off the
\* service's own data.
ExpectedDeletes ==
    LET cfg == endpointConfigOf[args.endpoint_name]
        variants == productionVariants[cfg]
    IN <<[op |-> "DeleteEndpoint", arg |-> args.endpoint_name],
         [op |-> "DeleteEndpointConfig", arg |-> cfg]>>
       \o [i \in 1..Len(variants) |->
              [op |-> "DeleteModel", arg |-> variants[i].ModelName]]

Deleting == args.command = "delete"
Listing == args.command = "list"

----------------------------------------------------------------------------
(* Properties *)

\* C1: with delete_model=True the delete calls issued are, in order,
\* DeleteEndpoint, DeleteEndpointConfig, then DeleteModel for each variant's
\* model in the order of the variants: at every moment the calls issued are
\* a prefix of that sequence, each call is issued only after every earlier
\* one succeeded, and a teardown that returned True issued all of them.
C1_DeleteOrder ==
    (Deleting /\ args.delete_model) =>
        /\ Len(DeleteCalls) <= Len(ExpectedDeletes)
        /\ \A i \in DOMAIN DeleteCalls :
              /\ DeleteCalls[i].op = ExpectedDeletes[i].op
              /\ DeleteCalls[i].arg = ExpectedDeletes[i].arg
              /\ i < Len(DeleteCalls) => DeleteCalls[i].ok
        /\ result = "True" => Len(DeleteCalls) = Len(ExpectedDeletes)

C1_Witness ==
    /\ Deleting /\ args.delete_model
    /\ result = "True"
    /\ Len(model_names) = 2
    /\ model_names[1] # model_names[2]
    /\ Len(DeleteCalls) = 4

\* C2 (as claimed): DeleteModel is called at most once per distinct model
\* name, and a model referenced by several variants does not make the
\* teardown fail: no DeleteModel call fails on a model this teardown has
\* itself deleted.
C2_DeleteModelOncePerName ==
    Deleting =>
        /\ \A i, j \in Issued("DeleteModel") :
              i # j => calls[i].arg # calls[j].arg
        /\ \A j \in Failed("DeleteModel") :
              \A i \in Done("DeleteModel") : calls[i].arg # calls[j].arg

C4_DescribeFailure ==
    (Deleting /\ (Failed("DescribeEndpoint") \cup Failed("DescribeEndpointConfig")) # {}) =>
        /\ pc \in {"del_returned", "exit"}
        /\ result = "False"
        /\ DeleteCalls = <<>>
        /\ remote = remote0

C4_Witness ==
    /\ Deleting
    /\ pc = "exit"
    /\ args.endpoint_name \notin remote0.endpoints
    /\ Failed("DescribeEndpoint") # {}
    /\ remote0.configs # {} /\ remote0.models # {}

\* C5: with delete_model=False no DeleteModel call is ever issued and the
\* models of the service are those it had before the teardown.
C5_KeepModel ==
    (Deleting /\ ~args.delete_model) =>
        /\ Issued("DeleteModel") = {}
        /\ remote.models = remote0.models

C5_Witness ==
    /\ Deleting /\ ~args.delete_model
    /\ pc = "exit"
    /\ result = "True"
    /\ \A i \in DOMAIN model_names : model_names[i] \in remote.models
    /\ Len(model_names) = 2

\* C6: what list_deployed_models returns is, for each kind, the
\* concatenation of the pages served, in page order.
C6_Concatenation ==
    (Listing /\ listReturned) =>
        /\ models.Items = Flatten(modelPages)
        /\ endpoints.Items = Flatten(endpointPages)

C6_Witness ==
    /\ Listing /\ listReturned
    /\ Len(modelPages) = 3
    /\ modelPages[1] = <<"mB", "mA">> /\ modelPages[3] = <<"mA">>
    /\ Len(endpointPages) = 2
    /\ Len(endpoints.Items) = 2

\* Whether the i-th call of a kind carries the token of the i-th page: none
\* for the first page, the previous response's NextToken after it.
TokensInOrder(op) ==
    \A i \in ListIssued(op) :
        LET k == Cardinality({j \in ListIssued(op) : j <= i})
        IN listCalls[i].token = IF k = 1 THEN 0 ELSE k

\* C7: each pagination loop issues one call per page and no more: never
\* more calls than pages, exactly as many as pages once the loop has ended,
\* and the calls ask for the pages in order.
C7_CallsPerPage ==
    Listing =>
        /\ Cardinality(ListIssued("ListModels")) <= Len(modelPages)
        /\ Cardinality(ListIssued("ListEndpoints")) <= Len(endpointPages)
        /\ TokensInOrder("ListModels") /\ TokensInOrder("ListEndpoints")
        /\ ListIssued("ListEndpoints") # {} =>
              Cardinality(ListIssued("ListModels")) = Len(modelPages)
        /\ listReturned =>
              Cardinality(ListIssued("ListEndpoints")) = Len(endpointPages)

C7_Witness ==
    /\ Listing /\ listReturned
    /\ Len(modelPages) = 3
    /\ modelPages[2] = <<>>
    /\ endpointPages = << <<>> >>
    /\ Len(listCalls) = 4

\* C8 (as claimed): when a ListEndpoints call fails after the models were
\* enumerated, the caller still receives the accumulated models.
C8_ModelsStillReturned ==
    (Listing /\ ListFailed("ListEndpoints") # {}) =>
        /\ listReturned
        /\ models.Items = Flatten(modelPages)

\* C8 (amended): when a ListEndpoints call fails after the models were
\* enumerated, the exception leaves list_deployed_models and main uncaught:
\* nothing is returned to the caller, the models accumulated are dropped
\* and nothing is printed.
C8_FailurePropagates ==
    (Listing /\ ListFailed("ListEndpoints") # {}) =>
        /\ all_models.Items = Flatten(modelPages)
        /\ raised /\ pc = "exit"
        /\ ~listReturned
        /\ models = NoResponse /\ endpoints = NoResponse
        /\ stdout = <<>>
        /\ exit_code = -1

C8_Witness ==
    /\ Listing
    /\ \E i \in ListFailed("ListEndpoints") : listCalls[i].token # 0
    /\ Len(all_models.Items) = 3
    /\ all_endpoints.Items # <<>>

\* C9: main returns 1 when no command is given; for delete it returns 0
\* exactly when delete_deployed_model returned True and 1 exactly when it
\* returned False, so never 0 after a call of the teardown failed.
C9_ExitCode ==
    pc = "exit" =>
        /\ args.command = "none" => exit_code = 1
        /\ Deleting =>
              /\ exit_code = 0 <=> result = "True"
              /\ exit_code = 1 <=> result = "False"
              /\ (\E i \in DOMAIN calls : ~calls[i].ok) => exit_code # 0

C9_Witness ==
    /\ Deleting
    /\ pc = "exit"
    /\ exit_code = 1
    /\ Done("DeleteEndpoint") # {}
    /\ Done("DeleteEndpointConfig") # {}

\* C10: when a delete call fails after DeleteEndpoint succeeded, the failing
\* call is the last call issued, no resource is created again, the teardown
\* returns False, the endpoint is gone, and the service still holds every
\* configuration and model whose delete did not succeed.
C10_NoRollback ==
    (Deleting /\ Done("DeleteEndpoint") # {}
              /\ (\E j \in DOMAIN calls : ~calls[j].ok)) =>
        /\ \A j \in DOMAIN calls : calls[j].ok <=> j < Len(calls)
        /\ \A j \in DOMAIN calls : calls[j].op \in DeleteOps \cup DescribeOps
        /\ result = "False"
        /\ pc \in {"del_returned", "exit"}
        /\ remote.endpoints = remote0.endpoints \ {args.endpoint_name}
        /\ Failed("DeleteEndpointConfig") # {} =>
              /\ endpoint_config_name \in remote.configs
              /\ remote.configs = remote0.configs
              /\ remote.models = remote0.models
        /\ remote.models =
              remote0.models \ {calls[i].arg : i \in Done("DeleteModel")}

C10_Witness ==
    /\ Deleting
    /\ pc = "exit"
    /\ Done("DeleteEndpoint") # {}
    /\ Failed("DeleteModel") # {}
    /\ Done("DeleteModel") # {}
    /\ remote.models # {}

=============================================================================
